---------------------------- MODULE Spec2Model ----------------------------
(***************************************************************************)
(* A model of the PD-ECS registry (src/ecs.c, src/ecs.h): the entity pool  *)
(* with its LIFO free list and generation-tagged handles, the component    *)
(* registry and membership masks, the system table, matchEntities and      *)
(* ecsTick.  The model is of the debug build (ASSERT active, non-Playdate  *)
(* target): a failed assertion or abort() ends the run (fatal = TRUE).     *)
(*                                                                         *)
(* A ComponentMask is modelled as the set of its set bit positions:        *)
(* `m | (1 << c)' is m \cup {c}, `m & ~(1 << c)' is m \ {c} and            *)
(* `(m & k) == k' is k \subseteq m.                                        *)
(***************************************************************************)
EXTENDS Integers, Sequences, FiniteSets, TLC

(***************************************************************************)
(* Build-time configuration (src/ecs.h: each is an #ifndef default that    *)
(* the build may override); the model is checked for small registries.     *)
(***************************************************************************)
ECS_MAX_ENTITIES == 3
ECS_MAX_COMPS == 2
ECS_MAX_SYSTEMS == 3

(* Integer widths of the code. *)
U8 == 256
U16 == 65536

(* The component names and sizes the host declares (Position, Speed, ...), *)
(* and the types it declares through the ECS_COMPONENT macro.              *)
CompNames == {"A", "B", "C"}
CompSizes == {4, 8}
CompTypes == {"A", "B"}
Contexts == {0}

(* Callbacks the host passes to matchEntities / newSystem. *)
Iterators == {"visit"}

(* sizeof(T) of the host's component types, for the ECS_COMPONENT macro. *)
SizeOf == [A |-> 4, B |-> 8, C |-> 4]

(* Bounds of the exploration. *)
MaxDestroys == 2
MaxLiveComp == 2
MaxDestroysComp == 1
MaxLiveSys == 1
MaxRegistrations == 4
MaxDestroysGen == 258
MaxDestroysOther == 1
MaxDestroysCb == 2

VARIABLES
    entities,      \* struct ECS .entities : EntityPool (freeCount, freeList, data)
    compData,      \* struct ECS .compData[0 .. compDataCount-1] (id, size)
    store,         \* the bytes of each component buffer, per slice offset
    systems,       \* struct ECS .systems[0 .. systemCount-1]
    nextSystemID,  \* struct ECS .nextSystemID
    fatal,         \* TRUE once an assertion failed or abort() was called
    op,            \* the last API call and its arguments
    ret,           \* what the last API call returned
    calls,         \* the callback invocations of the last matchEntities/ecsTick
    issued,        \* the handles the host obtained from newEntity
    destroys,      \* per slot: how many destroyEntity calls succeeded on it
    killedAt,      \* destroyed handle |-> destroys[slot] right after its destroy
    firstID        \* component name |-> the ID its first declaration returned

vars == <<entities, compData, store, systems, nextSystemID, fatal, op, ret,
          calls, issued, destroys, killedAt, firstID>>

Slots == 0 .. (ECS_MAX_ENTITIES - 1)
CompIDs == 0 .. (ECS_MAX_COMPS - 1)
Masks == SUBSET CompIDs

(* Return values, as recorded in ret. *)
NULL == [kind |-> "null"]
NoRet == [kind |-> "none"]
Wild == [kind |-> "wild"]
RetEntity(h) == [kind |-> "entity", e |-> h]
RetID(i) == [kind |-> "id", id |-> i]
RetBool(b) == [kind |-> "bool", b |-> b]

-----------------------------------------------------------------------------
(* Handle utilities: ecs.h entityIndex / entityGen, ecs.c generation,      *)
(* flags, createHandle, createEntityData.                                  *)

entityIndex(handle) == handle % U16

entityGen(handle) == (handle \div U16) % U16

(* uint8_t generation(EntityData): info & 0xffff, narrowed to 8 bits. *)
generation(d) == (d.info % U16) % U8

flags(d) == (d.info \div U16) % U16

kEntityUnused == 1

(* Entity createHandle(uint16_t index, uint8_t generation) *)
createHandle(index, gen) == ((gen % U8) * U16) + (index % U16)

(* EntityData createEntityData(uint8_t generation) *)
createEntityData(gen) == [info |-> gen % U8, components |-> {}]

-----------------------------------------------------------------------------
(* DECLARE_POOL(EntityData, Entity, ECS_MAX_ENTITIES)                      *)

initEntityPool ==
    [freeCount |-> ECS_MAX_ENTITIES,
     freeList  |-> [i \in Slots |-> ECS_MAX_ENTITIES - (i + 1)],
     data      |-> [i \in Slots |-> [info |-> 0, components |-> {}]]]

(* ASSERT(pool->freeCount); id = freeList[--freeCount] *)
newEntityFromPool(pool) ==
    IF pool.freeCount = 0
    THEN [fatal |-> TRUE, pool |-> pool, id |-> 0]
    ELSE [fatal |-> FALSE,
          pool  |-> [pool EXCEPT !.freeCount = @ - 1],
          id    |-> pool.freeList[pool.freeCount - 1]]

(* A variant that stores the released index at the bottom of the free list. *)
returnEntityToPoolFront(pool, id) ==
    IF ~(pool.freeCount < ECS_MAX_ENTITIES)
    THEN [fatal |-> TRUE, pool |-> pool]
    ELSE [fatal |-> FALSE,
          pool  |-> [pool EXCEPT !.freeList[0] = id, !.freeCount = @ + 1]]

(* ASSERT(pool->freeCount < count); freeList[freeCount++] = id *)
returnEntityToPool(pool, id) ==
    IF ~(pool.freeCount < ECS_MAX_ENTITIES)
    THEN [fatal |-> TRUE, pool |-> pool]
    ELSE [fatal |-> FALSE,
          pool  |-> [pool EXCEPT !.freeList[pool.freeCount] = id,
                                 !.freeCount = @ + 1]]

-----------------------------------------------------------------------------
(* Entity handling, as functions of the pool.                              *)

isEntityValid(pool, entity) ==
    generation(pool.data[entityIndex(entity)]) = entityGen(entity)

(* A variant that advances the slot's generation when it hands it out. *)
newEntityBumpGen(pool) ==
    IF pool.freeCount = 0
    THEN [fatal |-> TRUE, pool |-> pool, ret |-> 0]
    ELSE LET r   == newEntityFromPool(pool)
             gen == generation(r.pool.data[r.id]) + 1
         IN  [fatal |-> r.fatal,
              pool  |-> [r.pool EXCEPT !.data[r.id] = createEntityData(gen)],
              ret   |-> createHandle(r.id, gen)]

(* newEntity: abort() when no slot is free; the slot keeps its generation  *)
(* and its mask is cleared.                                                *)
newEntity(pool) ==
    IF pool.freeCount = 0
    THEN [fatal |-> TRUE, pool |-> pool, ret |-> 0]
    ELSE LET r   == newEntityFromPool(pool)
             gen == generation(r.pool.data[r.id])
         IN  [fatal |-> r.fatal,
              pool  |-> [r.pool EXCEPT !.data[r.id] = createEntityData(gen)],
              ret   |-> createHandle(r.id, gen)]

newEntityWithArchetype(pool, archetype) ==
    LET r == newEntity(pool)
    IN  IF r.fatal THEN r
        ELSE [r EXCEPT !.pool.data[entityIndex(r.ret)].components = archetype]

(* A variant that releases the slot without advancing its generation. *)
destroyEntityKeepGen(pool, entity) ==
    IF ~isEntityValid(pool, entity)
    THEN [fatal |-> FALSE, pool |-> pool, succeeded |-> FALSE]
    ELSE LET id  == entityIndex(entity)
             gen == entityGen(entity)
             p1  == [pool EXCEPT !.data[id] = createEntityData(gen)]
             r   == returnEntityToPool(p1, id)
         IN  [fatal |-> r.fatal, pool |-> r.pool, succeeded |-> ~r.fatal]

(* A variant that advances the generation by two. *)
destroyEntitySkipGen(pool, entity) ==
    IF ~isEntityValid(pool, entity)
    THEN [fatal |-> FALSE, pool |-> pool, succeeded |-> FALSE]
    ELSE LET id  == entityIndex(entity)
             gen == entityGen(entity)
             p1  == [pool EXCEPT !.data[id] = createEntityData(gen + 2)]
             r   == returnEntityToPool(p1, id)
         IN  [fatal |-> r.fatal, pool |-> r.pool, succeeded |-> ~r.fatal]

(* A variant without the validity check. *)
destroyEntityUnchecked(pool, entity) ==
    LET id  == entityIndex(entity)
        gen == entityGen(entity)
        p1  == [pool EXCEPT !.data[id] = createEntityData(gen + 1)]
        r   == returnEntityToPool(p1, id)
    IN  [fatal |-> r.fatal, pool |-> r.pool, succeeded |-> ~r.fatal]

(* destroyEntity: returns at once on an invalid handle; otherwise stores    *)
(* generation gen+1 (narrowed to 8 bits) with an empty mask and releases    *)
(* the slot.  succeeded tells the two paths apart.                          *)
destroyEntity(pool, entity) ==
    IF ~isEntityValid(pool, entity)
    THEN [fatal |-> FALSE, pool |-> pool, succeeded |-> FALSE]
    ELSE LET id  == entityIndex(entity)
             gen == entityGen(entity)
             p1  == [pool EXCEPT !.data[id] = createEntityData(gen + 1)]
             r   == returnEntityToPool(p1, id)
         IN  [fatal |-> r.fatal, pool |-> r.pool, succeeded |-> ~r.fatal]

-----------------------------------------------------------------------------
(* Component handling.  compData is the sequence compData[0..compDataCount) *)
(* (position i+1 holds the descriptor with ID i).                          *)

RECURSIVE scanComponentID(_, _, _)
scanComponentID(cd, name, i) ==
    IF ~(i < Len(cd)) THEN ECS_MAX_COMPS
    ELSE IF cd[i + 1].id = name THEN i
    ELSE scanComponentID(cd, name, i + 1)

(* A variant whose scan starts at the second descriptor. *)
ecsComponentIDFromOne(cd, name) == scanComponentID(cd, name, 1)

(* for(i = 0; i < compDataCount; ++i) if(!strcmp(...)) return i;           *)
(* return ECS_MAX_COMPS;                                                   *)
ecsComponentID(cd, name) == scanComponentID(cd, name, 0)

(* A variant without the early return for a name that is already known. *)
ecsDeclareComponentAlways(cd, st, compID, size) ==
    IF ~(Len(cd) < ECS_MAX_COMPS)
    THEN [fatal |-> TRUE, compData |-> cd, store |-> st, ret |-> 0]
    ELSE [fatal |-> FALSE,
          compData |-> Append(cd, [id |-> compID, size |-> size]),
          store |-> Append(st, [k \in Slots |-> 0]),
          ret |-> Len(cd)]

(* ecsDeclareComponent: the existing ID when the name is known; otherwise   *)
(* ASSERT(compDataCount < ECS_MAX_COMPS), a new zeroed buffer of            *)
(* ECS_MAX_ENTITIES slices, and the next sequential ID.                     *)
ecsDeclareComponent(cd, st, compID, size) ==
    LET id == ecsComponentID(cd, compID)
    IN  IF id # ECS_MAX_COMPS
        THEN [fatal |-> FALSE, compData |-> cd, store |-> st, ret |-> id]
        ELSE IF ~(Len(cd) < ECS_MAX_COMPS)
        THEN [fatal |-> TRUE, compData |-> cd, store |-> st, ret |-> 0]
        ELSE [fatal |-> FALSE,
              compData |-> Append(cd, [id |-> compID, size |-> size]),
              store |-> Append(st, [k \in Slots |-> 0]),
              ret |-> Len(cd)]

(* The address both addComponentID and getComponentID compute:             *)
(*   ecs->compData[compID]->data + compID * ecs->compData[compID]->size    *)
(* as the buffer it points into and the byte offset in that buffer.         *)
componentAddress(cd, entity, compID) ==
    [kind |-> "ptr", comp |-> compID, off |-> compID * cd[compID + 1].size]

(* ASSERT(compID < ECS_MAX_COMPS); ASSERT(isEntityValid(ecs, entity)) *)
componentArgsOK(pool, entity, compID) ==
    compID < ECS_MAX_COMPS /\ isEntityValid(pool, entity)

(* components |= (1 << compID) *)
setComponentBit(pool, entity, compID) ==
    [pool EXCEPT !.data[entityIndex(entity)].components = @ \cup {compID}]

(* A variant that forgets the complement: components &= (1 << compID). *)
clearComponentBitNoComplement(pool, entity, compID) ==
    [pool EXCEPT !.data[entityIndex(entity)].components = @ \cap {compID}]

(* components &= ~(1 << compID) *)
clearComponentBit(pool, entity, compID) ==
    [pool EXCEPT !.data[entityIndex(entity)].components = @ \ {compID}]

(* (components & (1 << compID)) == 0 *)
hasComponentBit(pool, entity, compID) ==
    compID \in pool.data[entityIndex(entity)].components

(* What getComponentID returns for a declared component type. *)
getComponentID(pool, cd, entity, compID) ==
    IF ~hasComponentBit(pool, entity, compID)
    THEN NULL
    ELSE componentAddress(cd, entity, compID)

-----------------------------------------------------------------------------
(* Systems and matchers.  systems is the sequence systems[0..systemCount)  *)
(* (entries past systemCount are never read: newSystem writes              *)
(* systems[systemCount] before it counts it).                              *)

(* The host's callbacks.  "visit" only reads.  The others are handed, as    *)
(* user data, the slot index `at' they act at, a target handle `t' and a    *)
(* component ID `c'; invoked on an entity of another slot they do nothing.  *)
SelfCallbacks == {"attachSelf", "destroySelf", "spawn"}
TargetCallbacks == {"attachTo", "removeFrom", "destroyTarget"}

Quiet(pool) == [fatal |-> FALSE, pool |-> pool, events |-> << >>]

(* addComponentID(ecs, e, c) called from a callback. *)
cbAttach(pool, e, c) ==
    IF ~componentArgsOK(pool, e, c)
    THEN [fatal |-> TRUE, pool |-> pool, events |-> << >>]
    ELSE Quiet(setComponentBit(pool, e, c))

(* removeComponentID(ecs, e, c) called from a callback. *)
cbRemove(pool, e, c) ==
    IF ~componentArgsOK(pool, e, c)
    THEN [fatal |-> TRUE, pool |-> pool, events |-> << >>]
    ELSE Quiet(clearComponentBit(pool, e, c))

(* destroyEntity(ecs, e) called from a callback. *)
cbDestroy(pool, e) ==
    LET r == destroyEntity(pool, e)
    IN  [fatal |-> r.fatal, pool |-> r.pool,
         events |-> IF r.succeeded THEN <<[kind |-> "destroyed", e |-> e]>>
                    ELSE << >>]

(* newEntity(ecs) called from a callback. *)
cbSpawn(pool) ==
    LET r == newEntity(pool)
    IN  [fatal |-> r.fatal, pool |-> r.pool,
         events |-> IF r.fatal THEN << >>
                    ELSE <<[kind |-> "created", e |-> r.ret]>>]

(* What the callback it does to the registry when matchEntities invokes it  *)
(* on entity: the Self callbacks act on the handle they receive, the Target *)
(* callbacks on the handle t of their user data (attachTo and removeFrom    *)
(* after checking isEntityValid(ecs, t)).                                   *)
iterate(it, pool, entity, userData) ==
    IF it = "visit" THEN Quiet(pool)
    ELSE IF entityIndex(entity) # userData.at THEN Quiet(pool)
    ELSE IF it = "attachSelf" THEN cbAttach(pool, entity, userData.c)
    ELSE IF it = "destroySelf" THEN cbDestroy(pool, entity)
    ELSE IF it = "spawn" THEN cbSpawn(pool)
    ELSE IF it = "attachTo"
         THEN IF isEntityValid(pool, userData.t)
              THEN cbAttach(pool, userData.t, userData.c) ELSE Quiet(pool)
    ELSE IF it = "removeFrom"
         THEN IF isEntityValid(pool, userData.t)
              THEN cbRemove(pool, userData.t, userData.c) ELSE Quiet(pool)
    ELSE cbDestroy(pool, userData.t)

(* matchEntities, from slot id on: reads the slot's data, skips a slot      *)
(* flagged kEntityUnused or whose mask lacks a bit of mask, and otherwise   *)
(* calls it on the handle made of the slot index and the slot's generation. *)
(* The pass ends where a callback aborts.                                   *)
RECURSIVE matchFrom(_, _, _, _, _, _, _)
matchFrom(pool, mask, it, userData, id, log, events) ==
    IF ~(id < ECS_MAX_ENTITIES)
    THEN [fatal |-> FALSE, pool |-> pool, calls |-> log, events |-> events]
    ELSE LET data == pool.data[id]
         IN  IF (flags(data) % (2 * kEntityUnused)) \div kEntityUnused = 1
             THEN matchFrom(pool, mask, it, userData, id + 1, log, events)
             ELSE IF ~(mask \subseteq data.components)
             THEN matchFrom(pool, mask, it, userData, id + 1, log, events)
             ELSE LET e == createHandle(id, generation(data))
                      r == iterate(it, pool, e, userData)
                      log1 == Append(log, [func |-> it, userData |-> userData,
                                           e |-> e])
                  IN  IF r.fatal
                      THEN [fatal |-> TRUE, pool |-> r.pool, calls |-> log1,
                            events |-> events \o r.events]
                      ELSE matchFrom(r.pool, mask, it, userData, id + 1, log1,
                                     events \o r.events)

(* A variant that decides which slots to visit, and with which handles,     *)
(* from a copy of the slots taken before the pass.                          *)
RECURSIVE matchSnapshotFrom(_, _, _, _, _, _, _, _)
matchSnapshotFrom(snap, pool, mask, it, userData, id, log, events) ==
    IF ~(id < ECS_MAX_ENTITIES)
    THEN [fatal |-> FALSE, pool |-> pool, calls |-> log, events |-> events]
    ELSE LET data == snap.data[id]
         IN  IF ~(mask \subseteq data.components)
             THEN matchSnapshotFrom(snap, pool, mask, it, userData, id + 1, log,
                                    events)
             ELSE LET e == createHandle(id, generation(data))
                      r == iterate(it, pool, e, userData)
                      log1 == Append(log, [func |-> it, userData |-> userData,
                                           e |-> e])
                  IN  IF r.fatal
                      THEN [fatal |-> TRUE, pool |-> r.pool, calls |-> log1,
                            events |-> events \o r.events]
                      ELSE matchSnapshotFrom(snap, r.pool, mask, it, userData,
                                             id + 1, log1, events \o r.events)

matchEntitiesSnapshot(pool, mask, it, userData) ==
    matchSnapshotFrom(pool, pool, mask, it, userData, 0, << >>, << >>)

matchEntities(pool, mask, it, userData) ==
    matchFrom(pool, mask, it, userData, 0, << >>, << >>)

(* A variant whose capacity check is off by one (<= for <). *)
newSystemOffByOne(sys, nextID, mask, it, data) ==
    IF ~(Len(sys) <= ECS_MAX_SYSTEMS) \/ it = "NULL"
    THEN [fatal |-> TRUE, systems |-> sys, nextSystemID |-> nextID, ret |-> 0]
    ELSE [fatal |-> FALSE,
          systems |-> Append(sys, [id |-> nextID, mask |-> mask, func |-> it,
                                   userData |-> data]),
          nextSystemID |-> (nextID + 1) % U8,
          ret |-> 0]

(* newSystem: ASSERT(systemCount < ECS_MAX_SYSTEMS); ASSERT(it != NULL);    *)
(* appends (nextSystemID++, mask, it, data); return 0.                      *)
newSystem(sys, nextID, mask, it, data) ==
    IF ~(Len(sys) < ECS_MAX_SYSTEMS) \/ it = "NULL"
    THEN [fatal |-> TRUE, systems |-> sys, nextSystemID |-> nextID, ret |-> 0]
    ELSE [fatal |-> FALSE,
          systems |-> Append(sys, [id |-> nextID, mask |-> mask, func |-> it,
                                   userData |-> data]),
          nextSystemID |-> (nextID + 1) % U8,
          ret |-> 0]

(* findSystem: the position (from 1) of the first entry with this id, or 0  *)
(* for NULL.                                                                *)
RECURSIVE findFrom(_, _, _)
findFrom(sys, id, i) ==
    IF ~(i < Len(sys)) THEN 0
    ELSE IF id = sys[i + 1].id THEN i + 1
    ELSE findFrom(sys, id, i + 1)

findSystem(sys, id) == findFrom(sys, id, 0)

(* memmove(sys + 1, sys, sizeof(System) * (end - (sys + 1))): the entries   *)
(* from the found one up to the one before the last are copied one place    *)
(* up; then systemCount -= 1.  k is the found entry's position (from 1).    *)
moveSystems(sys, k) ==
    [j \in 1 .. (Len(sys) - 1) |-> IF j <= k THEN sys[j] ELSE sys[j - 1]]

(* destroySystem: ASSERT(systemCount > 0); nothing when the id is not found *)
destroySystem(sys, id) ==
    IF ~(Len(sys) > 0) THEN [fatal |-> TRUE, systems |-> sys]
    ELSE LET k == findSystem(sys, id)
         IN  IF k = 0 THEN [fatal |-> FALSE, systems |-> sys]
             ELSE [fatal |-> FALSE, systems |-> moveSystems(sys, k)]

(* The calls of one pass, each marked with the id of the table entry that   *)
(* the pass was run for.                                                    *)
bySystem(log, id) ==
    [j \in 1 .. Len(log) |-> [sys |-> id, func |-> log[j].func,
                              userData |-> log[j].userData, e |-> log[j].e]]

(* ecsTick: one matchEntities per table entry, in table order. *)
RECURSIVE tickFrom(_, _, _, _, _)
tickFrom(pool, sys, i, log, events) ==
    IF ~(i < Len(sys))
    THEN [fatal |-> FALSE, pool |-> pool, calls |-> log, events |-> events]
    ELSE LET r == matchEntities(pool, sys[i + 1].mask, sys[i + 1].func,
                                sys[i + 1].userData)
             log1 == log \o bySystem(r.calls, sys[i + 1].id)
         IN  IF r.fatal
             THEN [fatal |-> TRUE, pool |-> r.pool, calls |-> log1,
                   events |-> events \o r.events]
             ELSE tickFrom(r.pool, sys, i + 1, log1, events \o r.events)

ecsTick(pool, sys) == tickFrom(pool, sys, 0, << >>, << >>)

-----------------------------------------------------------------------------
(* The registry after newECS(), and the host's bookkeeping.                *)

Init ==
    /\ entities = initEntityPool
    /\ compData = << >>
    /\ store = << >>
    /\ systems = << >>
    /\ nextSystemID = 0
    /\ fatal = FALSE
    /\ op = [name |-> "newECS"]
    /\ ret = NoRet
    /\ calls = << >>
    /\ issued = {}
    /\ destroys = [i \in Slots |-> 0]
    /\ killedAt = << >>
    /\ firstID = << >>

LiveCount == ECS_MAX_ENTITIES - entities.freeCount

RECURSIVE SumOver(_, _)
SumOver(f, S) ==
    IF S = {} THEN 0
    ELSE LET x == CHOOSE y \in S : TRUE IN f[x] + SumOver(f, S \ {x})

TotalDestroys == SumOver(destroys, Slots)

(* f with x mapped to v / with x dropped from its domain. *)
MapPut(f, x, v) == [y \in (DOMAIN f) \cup {x} |-> IF y = x THEN v ELSE f[y]]
MapDrop(f, x) == [y \in (DOMAIN f) \ {x} |-> f[y]]

(* The host's bookkeeping after the creations and destructions that the    *)
(* callbacks of a pass made, from the k-th on.                              *)
RECURSIVE Recorded(_, _, _)
Recorded(events, k, g) ==
    IF k > Len(events) THEN g
    ELSE LET e == events[k].e
             i == entityIndex(e)
         IN  Recorded(events, k + 1,
                 IF events[k].kind = "created"
                 THEN [g EXCEPT !.issued = @ \cup {e},
                                !.killedAt = MapDrop(@, e)]
                 ELSE [g EXCEPT !.destroys[i] = @ + 1,
                                !.killedAt = MapPut(@, e, g.destroys[i] + 1)])

-----------------------------------------------------------------------------
(* The API calls.                                                          *)

DeclareComponent(name, size) ==
    /\ ~fatal
    /\ LET r == ecsDeclareComponent(compData, store, name, size)
       IN  /\ fatal' = r.fatal
           /\ compData' = r.compData
           /\ store' = r.store
           /\ ret' = IF r.fatal THEN NoRet ELSE RetID(r.ret)
           /\ firstID' = IF r.fatal \/ name \in DOMAIN firstID THEN firstID
                         ELSE MapPut(firstID, name, r.ret)
    /\ op' = [name |-> "ecsDeclareComponent", cname |-> name, size |-> size]
    /\ calls' = << >>
    /\ UNCHANGED <<entities, systems, nextSystemID, issued, destroys, killedAt>>

LookupComponent(name) ==
    /\ ~fatal
    /\ ret' = RetID(ecsComponentID(compData, name))
    /\ op' = [name |-> "ecsComponentID", cname |-> name]
    /\ calls' = << >>
    /\ UNCHANGED <<entities, compData, store, systems, nextSystemID, fatal,
                   issued, destroys, killedAt, firstID>>

Created(r, opname) ==
    /\ entities' = r.pool
    /\ fatal' = r.fatal
    /\ ret' = IF r.fatal THEN NoRet ELSE RetEntity(r.ret)
    /\ issued' = IF r.fatal THEN issued ELSE issued \cup {r.ret}
    /\ killedAt' = IF r.fatal THEN killedAt ELSE MapDrop(killedAt, r.ret)
    /\ op' = opname
    /\ calls' = << >>
    /\ UNCHANGED <<compData, store, systems, nextSystemID, destroys, firstID>>

NewEntity ==
    /\ ~fatal
    /\ Created(newEntity(entities), [name |-> "newEntity"])

NewEntityWithArchetype(archetype) ==
    /\ ~fatal
    /\ Created(newEntityWithArchetype(entities, archetype),
               [name |-> "newEntityWithArchetype", mask |-> archetype])

IsEntityValid(e) ==
    /\ ~fatal
    /\ ret' = RetBool(isEntityValid(entities, e))
    /\ op' = [name |-> "isEntityValid", e |-> e]
    /\ calls' = << >>
    /\ UNCHANGED <<entities, compData, store, systems, nextSystemID, fatal,
                   issued, destroys, killedAt, firstID>>

DestroyEntity(e) ==
    /\ ~fatal
    /\ LET r == destroyEntity(entities, e)
           i == entityIndex(e)
       IN  /\ entities' = r.pool
           /\ fatal' = r.fatal
           /\ destroys' = IF r.succeeded THEN [destroys EXCEPT ![i] = @ + 1]
                          ELSE destroys
           /\ killedAt' = IF r.succeeded
                          THEN MapPut(killedAt, e, destroys[i] + 1)
                          ELSE killedAt
           /\ op' = [name |-> "destroyEntity", e |-> e, succeeded |-> r.succeeded]
    /\ ret' = NoRet
    /\ calls' = << >>
    /\ UNCHANGED <<compData, store, systems, nextSystemID, issued, firstID>>

(* Reading compData[compID] of an undeclared type reads a pointer that was  *)
(* never set: the call may crash or return a wild address.                  *)
AddressOutcomes(e, compID) ==
    IF compID < Len(compData)
    THEN {[fatal |-> FALSE, ret |-> componentAddress(compData, e, compID)]}
    ELSE {[fatal |-> TRUE, ret |-> NoRet], [fatal |-> FALSE, ret |-> Wild]}

AddComponent(e, compID) ==
    /\ ~fatal
    /\ op' = [name |-> "addComponentID", e |-> e, c |-> compID]
    /\ calls' = << >>
    /\ IF ~componentArgsOK(entities, e, compID)
       THEN fatal' = TRUE /\ ret' = NoRet /\ UNCHANGED entities
       ELSE /\ entities' = setComponentBit(entities, e, compID)
            /\ \E o \in AddressOutcomes(e, compID) :
                   fatal' = o.fatal /\ ret' = o.ret
    /\ UNCHANGED <<compData, store, systems, nextSystemID, issued, destroys,
                   killedAt, firstID>>

GetComponent(e, compID) ==
    /\ ~fatal
    /\ op' = [name |-> "getComponentID", e |-> e, c |-> compID]
    /\ calls' = << >>
    /\ IF ~componentArgsOK(entities, e, compID)
       THEN fatal' = TRUE /\ ret' = NoRet
       ELSE IF ~hasComponentBit(entities, e, compID)
       THEN fatal' = FALSE /\ ret' = NULL
       ELSE \E o \in AddressOutcomes(e, compID) :
                fatal' = o.fatal /\ ret' = o.ret
    /\ UNCHANGED <<entities, compData, store, systems, nextSystemID, issued,
                   destroys, killedAt, firstID>>

RemoveComponent(e, compID) ==
    /\ ~fatal
    /\ op' = [name |-> "removeComponentID", e |-> e, c |-> compID]
    /\ calls' = << >>
    /\ ret' = NoRet
    /\ IF ~componentArgsOK(entities, e, compID)
       THEN fatal' = TRUE /\ UNCHANGED entities
       ELSE fatal' = FALSE /\ entities' = clearComponentBit(entities, e, compID)
    /\ UNCHANGED <<compData, store, systems, nextSystemID, issued, destroys,
                   killedAt, firstID>>

Passed(r) ==
    LET g == Recorded(r.events, 1, [issued |-> issued, destroys |-> destroys,
                                    killedAt |-> killedAt])
    IN  /\ entities' = r.pool
        /\ fatal' = r.fatal
        /\ calls' = r.calls
        /\ issued' = g.issued
        /\ destroys' = g.destroys
        /\ killedAt' = g.killedAt
        /\ ret' = NoRet
        /\ UNCHANGED <<compData, store, systems, nextSystemID, firstID>>

MatchEntities(mask, it, userData) ==
    /\ ~fatal
    /\ Passed(matchEntities(entities, mask, it, userData))
    /\ op' = [name |-> "matchEntities", mask |-> mask, func |-> it,
              userData |-> userData]

NewSystem(mask, it, data) ==
    /\ ~fatal
    /\ LET r == newSystem(systems, nextSystemID, mask, it, data)
       IN  /\ fatal' = r.fatal
           /\ systems' = r.systems
           /\ nextSystemID' = r.nextSystemID
           /\ ret' = IF r.fatal THEN NoRet ELSE RetID(r.ret)
    /\ op' = [name |-> "newSystem", mask |-> mask, func |-> it, userData |-> data]
    /\ calls' = << >>
    /\ UNCHANGED <<entities, compData, store, issued, destroys, killedAt, firstID>>

DestroySystem(id) ==
    /\ ~fatal
    /\ LET r == destroySystem(systems, id)
       IN  fatal' = r.fatal /\ systems' = r.systems
    /\ op' = [name |-> "destroySystem", id |-> id]
    /\ ret' = NoRet
    /\ calls' = << >>
    /\ UNCHANGED <<entities, compData, store, nextSystemID, issued, destroys,
                   killedAt, firstID>>

EcsTick ==
    /\ ~fatal
    /\ Passed(ecsTick(entities, systems))
    /\ op' = [name |-> "ecsTick"]

(* ECS_COMPONENT(ecs, T): ecsDeclareComponent(ecs, #T, sizeof(T)) *)
DeclareComponentT(T) == DeclareComponent(T, SizeOf[T])

(* getComponent(ecs, entity, T), the macro of ecs.h:                        *)
(*   addComponentID(ecs, entity, ECS_COMPONENT(ecs, T)), cast to T pointer *)
(* declares T (or finds its ID) and then calls addComponentID with that ID.  *)
GetComponentT(e, T) ==
    /\ ~fatal
    /\ LET r == ecsDeclareComponent(compData, store, T, SizeOf[T])
       IN  /\ compData' = r.compData
           /\ store' = r.store
           /\ firstID' = IF r.fatal \/ T \in DOMAIN firstID THEN firstID
                         ELSE MapPut(firstID, T, r.ret)
           /\ op' = [name |-> "getComponent", e |-> e, cname |-> T,
                     c |-> IF r.fatal THEN ECS_MAX_COMPS ELSE r.ret]
           /\ IF r.fatal \/ ~componentArgsOK(entities, e, r.ret)
              THEN fatal' = TRUE /\ ret' = NoRet /\ UNCHANGED entities
              ELSE /\ fatal' = FALSE
                   /\ entities' = setComponentBit(entities, e, r.ret)
                   /\ ret' = componentAddress(r.compData, e, r.ret)
    /\ calls' = << >>
    /\ UNCHANGED <<systems, nextSystemID, issued, destroys, killedAt>>

-----------------------------------------------------------------------------
(* Spec: the entity pool, archetypes and matchEntities.                    *)

Next ==
    \/ NewEntity
    \/ \E m \in Masks : NewEntityWithArchetype(m)
    \/ \E e \in issued : IsEntityValid(e)
    \/ (TotalDestroys < MaxDestroys /\ \E e \in issued : DestroyEntity(e))
    \/ \E m \in Masks, it \in Iterators, ud \in Contexts : MatchEntities(m, it, ud)

Spec == Init /\ [][Next]_vars

(* SpecDecl: the component registry.                                       *)
NextDecl ==
    \/ \E name \in CompNames, size \in CompSizes : DeclareComponent(name, size)
    \/ \E name \in CompNames : LookupComponent(name)

SpecDecl == Init /\ [][NextDecl]_vars

(* SpecComp: components attached to, read from and removed from entities.  *)
NextComp ==
    \/ \E T \in CompTypes : DeclareComponentT(T)
    \/ (LiveCount < MaxLiveComp /\ NewEntity)
    \/ (TotalDestroys < MaxDestroysComp /\ \E e \in issued : DestroyEntity(e))
    \/ \E e \in issued, c \in 0 .. ECS_MAX_COMPS : AddComponent(e, c)
    \/ \E e \in issued, c \in 0 .. ECS_MAX_COMPS : GetComponent(e, c)
    \/ \E e \in issued, c \in 0 .. ECS_MAX_COMPS : RemoveComponent(e, c)

SpecComp == Init /\ [][NextComp]_vars

(* SpecSys: the system table and ecsTick, in a registry whose host has     *)
(* declared the component types A and B.                                   *)
InitSys ==
    LET a == ecsDeclareComponent(<< >>, << >>, "A", SizeOf["A"])
        b == ecsDeclareComponent(a.compData, a.store, "B", SizeOf["B"])
    IN  /\ entities = initEntityPool
        /\ compData = b.compData
        /\ store = b.store
        /\ systems = << >>
        /\ nextSystemID = 0
        /\ fatal = FALSE
        /\ op = [name |-> "ecsDeclareComponent", cname |-> "B", size |-> SizeOf["B"]]
        /\ ret = RetID(b.ret)
        /\ calls = << >>
        /\ issued = {}
        /\ destroys = [i \in Slots |-> 0]
        /\ killedAt = << >>
        /\ firstID = [n \in {"A", "B"} |-> IF n = "A" THEN a.ret ELSE b.ret]

NextSys ==
    \/ ((nextSystemID < MaxRegistrations \/ Len(systems) = ECS_MAX_SYSTEMS)
        /\ \E m \in Masks, it \in Iterators \cup {"NULL"}, ud \in Contexts :
               NewSystem(m, it, ud))
    \/ \E id \in 0 .. MaxRegistrations : DestroySystem(id)
    \/ EcsTick
    \/ (LiveCount < MaxLiveSys /\ NewEntity)
    \/ \E e \in issued, c \in CompIDs : AddComponent(e, c)

SpecSys == InitSys /\ [][NextSys]_vars

(* SpecGen: a host that creates and destroys entities until the generation *)
(* of slot 0 has gone all the way round (the other slots are recycled up   *)
(* to MaxDestroysOther times each).  It calls destroyEntity on the handles it    *)
(* holds that are valid or were the last destroyed on their slot.           *)
GenInputs ==
    {e \in issued :
        \/ isEntityValid(entities, e)
        \/ (e \in DOMAIN killedAt /\ killedAt[e] = destroys[entityIndex(e)])}

GenDestroyCap(i) == IF i = 0 THEN MaxDestroysGen ELSE MaxDestroysOther

NextGen ==
    \/ NewEntity
    \/ \E e \in GenInputs :
           /\ destroys[entityIndex(e)] < GenDestroyCap(entityIndex(e))
           /\ DestroyEntity(e)

SpecGen == Init /\ [][NextGen]_vars

(* SpecCb: a host whose callbacks change the registry during a pass of      *)
(* matchEntities.  The component types A and B are declared; the masks and   *)
(* the callbacks use type A (ID 0).                                          *)
CbMasks == {{}, {0}}

CbTargets(i) == {h \in issued : entityIndex(h) # i}

NextCb ==
    \/ NewEntity
    \/ \E e \in issued : AddComponent(e, 0)
    \/ (TotalDestroys < MaxDestroysCb /\ \E e \in issued : DestroyEntity(e))
    \/ \E m \in CbMasks : MatchEntities(m, "visit", [at |-> 0, t |-> 0, c |-> 0])
    \/ (TotalDestroys < MaxDestroysCb
        /\ \E m \in CbMasks, it \in SelfCallbacks, i \in Slots :
               MatchEntities(m, it, [at |-> i, t |-> 0, c |-> 0]))
    \/ (TotalDestroys < MaxDestroysCb
        /\ \E m \in CbMasks, it \in TargetCallbacks, i \in Slots :
               \E h \in CbTargets(i) :
                   MatchEntities(m, it, [at |-> i, t |-> h, c |-> 0]))

SpecCb == InitSys /\ [][NextCb]_vars

(* SpecIds: a host that keeps its first system registered and registers and *)
(* unregisters a second one over and over (always the last table entry).     *)
NextIds ==
    \/ (Len(systems) < 2
        /\ \E it \in Iterators, ud \in Contexts : NewSystem({}, it, ud))
    \/ (Len(systems) = 2 /\ DestroySystem(systems[Len(systems)].id))

SpecIds == Init /\ [][NextIds]_vars

(* SpecRead: a host that declares its types, creates entities, attaches and *)
(* removes components and reads them through both read entry points.         *)
NextRead ==
    \/ \E T \in CompTypes : DeclareComponentT(T)
    \/ (LiveCount < MaxLiveComp /\ NewEntity)
    \/ \E e \in issued, c \in CompIDs : AddComponent(e, c)
    \/ \E e \in issued, c \in CompIDs : RemoveComponent(e, c)
    \/ \E e \in issued, c \in CompIDs : GetComponent(e, c)
    \/ \E e \in issued, T \in CompTypes : GetComponentT(e, T)

SpecRead == Init /\ [][NextRead]_vars

-----------------------------------------------------------------------------
(* The claims.                                                             *)

(* How many destroyEntity calls have succeeded on the slot of a destroyed   *)
(* handle h since h was issued (its own destroy included).                  *)
DestroysSince(h) == (destroys[entityIndex(h)] - killedAt[h]) + 1

(* C1: the handle newEntity returns is valid right after the call; a handle *)
(* is invalid right after destroyEntity on it; and a destroyed handle stays  *)
(* invalid, also when its slot is handed out again, as long as the slot's    *)
(* generation has not wrapped round (fewer than 256 destroys of the slot     *)
(* since the handle was issued).  (Of a registry that has not aborted.)      *)
C1_HandleLifecycle ==
    ~fatal =>
        /\ (op.name = "newEntity") => isEntityValid(entities, ret.e)
        /\ (op.name = "destroyEntity") => ~isEntityValid(entities, op.e)
        /\ \A h \in DOMAIN killedAt :
               DestroysSince(h) < U8 => ~isEntityValid(entities, h)

(* A destroyed handle whose slot now belongs to a newly created entity. *)
C1_Witness ==
    /\ op.name = "newEntity" /\ ~fatal
    /\ \E h \in DOMAIN killedAt :
           /\ entityIndex(h) = entityIndex(ret.e)
           /\ h # ret.e
           /\ DestroysSince(h) < U8
           /\ isEntityValid(entities, ret.e)

(* C10 as stated: when newEntity follows a successful destroyEntity(e), the *)
(* new handle has e's slot index and a strictly greater generation, e is     *)
(* invalid and the new handle is valid.                                      *)
C10_Original ==
    [][(op.name = "destroyEntity" /\ op.succeeded
            /\ op'.name = "newEntity" /\ ~fatal')
        => /\ entityIndex(ret'.e) = entityIndex(op.e)
           /\ entityGen(ret'.e) > entityGen(op.e)
           /\ ~isEntityValid(entities', op.e)
           /\ isEntityValid(entities', ret'.e)]_vars

(* C10, amended: when newEntity follows a successful destroyEntity(e), the  *)
(* new handle has e's slot index and the generation of e plus one modulo     *)
(* 256 (so a different one, and a greater one unless e's generation is 255), *)
(* e is invalid and the new handle is valid.                                 *)
C10_LifoReuse ==
    [][(op.name = "destroyEntity" /\ op.succeeded
            /\ op'.name = "newEntity" /\ ~fatal')
        => /\ entityIndex(ret'.e) = entityIndex(op.e)
           /\ entityGen(ret'.e) = (entityGen(op.e) + 1) % U8
           /\ entityGen(ret'.e) # entityGen(op.e)
           /\ (entityGen(op.e) # U8 - 1 => entityGen(ret'.e) > entityGen(op.e))
           /\ ~isEntityValid(entities', op.e)
           /\ isEntityValid(entities', ret'.e)]_vars

(* Every slot is live again after the entity of slot 1 was destroyed and a  *)
(* new entity was created on its index with generation 1.                    *)
C10_Witness ==
    /\ op.name = "newEntity" /\ ~fatal
    /\ entityIndex(ret.e) = 1 /\ entityGen(ret.e) = 1
    /\ createHandle(1, 0) \in DOMAIN killedAt
    /\ LiveCount = ECS_MAX_ENTITIES

(* The handles of the entities that were created and not destroyed since. *)
LiveHandles == {h \in issued : h \notin DOMAIN killedAt}

(* The membership mask of the slot a handle addresses. *)
MaskOf(h) == entities.data[entityIndex(h)].components

(* C2: addComponentID and getComponentID return the slice of the component  *)
(* buffer at offset entityIndex(e) * size, so two live entities on different *)
(* slots never get the same slice of one component type.                     *)
C2_SliceAtEntityIndex ==
    ~fatal =>
        /\ (op.name \in {"addComponentID", "getComponentID"} /\ ret.kind = "ptr")
               => /\ ret.comp = op.c
                  /\ ret.off = entityIndex(op.e) * compData[op.c + 1].size
        /\ \A h1 \in LiveHandles, h2 \in LiveHandles :
             \A c \in 0 .. (Len(compData) - 1) :
               (entityIndex(h1) # entityIndex(h2)
                    /\ c \in MaskOf(h1) /\ c \in MaskOf(h2))
               => getComponentID(entities, compData, h1, c)
                      # getComponentID(entities, compData, h2, c)

(* The slots on the free list. *)
FreeSlots == {entities.freeList[k] : k \in 0 .. (entities.freeCount - 1)}

(* The handles, in ascending slot order, of the live entities whose mask   *)
(* contains every bit of mask.                                             *)
RECURSIVE LiveMatchesFrom(_, _)
LiveMatchesFrom(mask, id) ==
    IF ~(id < ECS_MAX_ENTITIES) THEN << >>
    ELSE LET rest == LiveMatchesFrom(mask, id + 1)
             d == entities.data[id]
         IN  IF id \notin FreeSlots /\ mask \subseteq d.components
             THEN <<createHandle(id, generation(d))>> \o rest
             ELSE rest

CalledHandles == [j \in 1 .. Len(calls) |-> calls[j].e]

(* C3: matchEntities with a callback that changes nothing invokes it once   *)
(* for each live entity whose mask contains all bits of the mask, in         *)
(* ascending slot order, and never for a free slot.                          *)
C3_MatchVisitsLiveOnly ==
    (op.name = "matchEntities" /\ op.func = "visit")
        => CalledHandles = LiveMatchesFrom(op.mask, 0)

(* C4: after addComponentID(e, X) on a valid entity and a declared type,    *)
(* getComponentID(e, X) is not NULL and bit X of e's mask is set; after      *)
(* removeComponentID(e, X), getComponentID(e, X) is NULL; neither changes    *)
(* another bit of e's mask or the mask of another slot.                      *)
C4_AttachRemove ==
    [][(~fatal' /\ op'.name \in {"addComponentID", "removeComponentID"}
            /\ op'.c < Len(compData))
        => LET e == op'.e
               X == op'.c
           IN  /\ op'.name = "addComponentID"
                    => /\ getComponentID(entities', compData', e, X) # NULL
                       /\ X \in entities'.data[entityIndex(e)].components
               /\ op'.name = "removeComponentID"
                    => getComponentID(entities', compData', e, X) = NULL
               /\ \A i \in Slots :
                    \A c \in 0 .. 7 :
                      (i # entityIndex(e) \/ c # X)
                      => (c \in entities'.data[i].components
                            <=> c \in entities.data[i].components)]_vars

(* A component was removed from a live entity that keeps another one, while *)
(* a second live entity has the removed type attached.                       *)
C4_Witness ==
    /\ op.name = "removeComponentID" /\ ~fatal /\ op.c < Len(compData)
    /\ MaskOf(op.e) # {}
    /\ \E h \in LiveHandles : h # op.e /\ op.c \in MaskOf(h)

(* C5: newSystem returns the identifier stored in the entry it appended.    *)
C5_ReturnsRegisteredID ==
    (op.name = "newSystem" /\ ~fatal)
        => ret.id = systems[Len(systems)].id

(* The table without its entry at position k (from 1). *)
WithoutEntry(sys, k) ==
    [j \in 1 .. (Len(sys) - 1) |-> IF j < k THEN sys[j] ELSE sys[j + 1]]

(* C6: destroySystem(id) of an id at position k leaves the table with that  *)
(* entry removed, the entries before it unchanged, the later ones moved      *)
(* down by one in their order, and no entry with that id.                    *)
C6_DestroyRemovesEntry ==
    [][(op'.name = "destroySystem" /\ ~fatal'
            /\ findSystem(systems, op'.id) # 0)
        => /\ systems' = WithoutEntry(systems, findSystem(systems, op'.id))
           /\ findSystem(systems', op'.id) = 0]_vars

(* C7: newSystem succeeds exactly when the table holds fewer than           *)
(* ECS_MAX_SYSTEMS entries (and then adds one) and fails fatally when it is  *)
(* full; destroySystem of an id in the table frees exactly one place.        *)
C7_SystemCapacity ==
    [][/\ (op'.name = "newSystem" /\ op'.func # "NULL")
            => /\ fatal' <=> (Len(systems) = ECS_MAX_SYSTEMS)
               /\ ~fatal' => Len(systems') = Len(systems) + 1
       /\ (op'.name = "destroySystem" /\ findSystem(systems, op'.id) # 0)
            => /\ ~fatal'
               /\ Len(systems') = Len(systems) - 1
       /\ Len(systems') <= ECS_MAX_SYSTEMS]_vars

(* The table was filled, one system was destroyed, one more was registered, *)
(* and the registration after that failed.                                   *)
C7_Witness ==
    /\ op.name = "newSystem" /\ op.func # "NULL" /\ fatal
    /\ Len(systems) = ECS_MAX_SYSTEMS
    /\ nextSystemID = ECS_MAX_SYSTEMS + 1

(* How many calls of the last tick were made for system id s on entity h. *)
CallCount(s, h) ==
    Cardinality({j \in 1 .. Len(calls) : calls[j].sys = s /\ calls[j].e = h})

(* C8: ecsTick invokes the callback of each system in the table once for    *)
(* each live entity whose mask contains the system's mask, and not at all    *)
(* for a live entity that lacks one of its components.                       *)
C8_TickOncePerSystem ==
    (op.name = "ecsTick")
        => \A k \in 1 .. Len(systems) :
             \A h \in LiveHandles :
               CallCount(systems[k].id, h)
                   = IF systems[k].mask \subseteq MaskOf(h) THEN 1 ELSE 0

(* C9: declaring a name that is already registered returns the ID of its    *)
(* first declaration and leaves the registered types and their buffers as    *)
(* they were.                                                                *)
C9_DeclareIdempotent ==
    [][(op'.name = "ecsDeclareComponent" /\ op'.cname \in DOMAIN firstID)
        => /\ ~fatal'
           /\ ret' = RetID(firstID[op'.cname])
           /\ compData' = compData
           /\ store' = store]_vars

(* The first of two registered names was declared again: the call returned  *)
(* 0 although two types are registered.                                      *)
C9_Witness ==
    /\ op.name = "ecsDeclareComponent" /\ ~fatal
    /\ Len(compData) = 2 /\ Len(store) = 2
    /\ op.cname = compData[1].id
    /\ ret = RetID(0)

(* C11: newEntity succeeds when fewer than ECS_MAX_ENTITIES entities are    *)
(* live, aborts exactly when ECS_MAX_ENTITIES are live, and never returns a  *)
(* handle to a slot that a live entity occupies.                             *)
C11_NewEntityCapacity ==
    [][(op'.name \in {"newEntity", "newEntityWithArchetype"})
        => /\ fatal' <=> (Cardinality(LiveHandles) = ECS_MAX_ENTITIES)
           /\ ~fatal' => \A h \in LiveHandles :
                             entityIndex(h) # entityIndex(ret'.e)]_vars

(* C12: destroyEntity on a handle that is not valid changes nothing: every  *)
(* slot's generation and mask, the free list and the free count stay as they *)
(* were, the call returns, and the entity that occupies the slot stays valid.*)
C12_DestroyInvalidNoOp ==
    [][(op'.name = "destroyEntity" /\ ~isEntityValid(entities, op'.e))
        => /\ entities' = entities
           /\ ~fatal'
           /\ \A h \in issued :
                  isEntityValid(entities, h) => isEntityValid(entities', h)]_vars

(* destroyEntity was called on a destroyed handle whose slot is occupied by *)
(* a later entity that has components.                                       *)
C12_Witness ==
    /\ op.name = "destroyEntity" /\ ~op.succeeded /\ ~fatal
    /\ \E h \in LiveHandles :
           /\ entityIndex(h) = entityIndex(op.e)
           /\ h # op.e
           /\ isEntityValid(entities, h)
           /\ MaskOf(h) # {}

(* C13: system identifiers are never reused: a newly registered system gets *)
(* an id that no entry of the table has, and the ids of the entries in the   *)
(* table are pairwise distinct in every reachable state.                     *)
C13_IdsNeverReused ==
    /\ \A j \in 1 .. Len(systems) :
         \A k \in 1 .. Len(systems) :
           j # k => systems[j].id # systems[k].id
    /\ (op.name = "newSystem" /\ ~fatal)
          => \A j \in 1 .. (Len(systems) - 1) :
                 systems[j].id # systems[Len(systems)].id

(* C14: in every reachable state, also after a pass whose callbacks call    *)
(* registry operations on the handles they receive, every slot on the free   *)
(* list has an empty membership mask.                                        *)
C14_FreeSlotMaskEmpty ==
    ~fatal => \A i \in FreeSlots : entities.data[i].components = {}

(* Whether the data of slot j in pool passes the tests of matchEntities. *)
Matches(pool, mask, j) ==
    /\ (flags(pool.data[j]) % (2 * kEntityUnused)) \div kEntityUnused = 0
    /\ mask \subseteq pool.data[j].components

(* The slots the callback was invoked for in the last pass, in call order. *)
CalledSlots == [k \in 1 .. Len(calls) |-> entityIndex(calls[k].e)]

(* C15: when the callback invoked for slot i attaches or removes a          *)
(* component on, or destroys, the entity of another slot j, the callback is  *)
(* invoked for a slot j > i exactly when j's data after that change passes   *)
(* the mask test (and with the handle of j's generation after the change),   *)
(* and for a slot j < i exactly when j's data passed it before the change:   *)
(* no slot is visited twice and the visits are in ascending slot order.      *)
C15_MatchReadsLiveState ==
    [][(op'.name = "matchEntities" /\ op'.func \in TargetCallbacks /\ ~fatal')
        => LET i == op'.userData.at
               acted == Matches(entities, op'.mask, i)
           IN  /\ \A j \in Slots :
                    (\E k \in 1 .. Len(calls') : CalledSlots'[k] = j)
                    <=> IF j > i /\ acted
                        THEN Matches(entities', op'.mask, j)
                        ELSE Matches(entities, op'.mask, j)
               /\ \A k \in 1 .. (Len(calls') - 1) :
                      CalledSlots'[k] < CalledSlots'[k + 1]
               /\ \A k \in 1 .. Len(calls') :
                      CalledSlots'[k] > i /\ acted
                      => isEntityValid(entities', calls'[k].e)]_vars

(* A pass over the entities that have component 0 whose callback, invoked   *)
(* for a slot, destroyed the live entity of a later slot that had the        *)
(* component: the callback was not invoked for that later slot.              *)
C15_Witness ==
    /\ op.name = "matchEntities" /\ op.func = "destroyTarget" /\ ~fatal
    /\ op.mask = {0}
    /\ entityIndex(op.userData.t) > op.userData.at
    /\ \E k \in 1 .. Len(calls) : CalledSlots[k] = op.userData.at
    /\ ~\E k \in 1 .. Len(calls) : CalledSlots[k] = entityIndex(op.userData.t)
    /\ op.userData.t \in DOMAIN killedAt
    /\ killedAt[op.userData.t] = destroys[entityIndex(op.userData.t)]

(* C16: newEntity returns a handle with the generation the acquired slot    *)
(* had before the call and leaves that generation as it was; the slot's mask *)
(* is empty after newEntity and equal to the archetype after                 *)
(* newEntityWithArchetype; no other slot changes; and a slot's generation    *)
(* changes only when a destroyEntity succeeds on it (in a registry that has  *)
(* not aborted).                                                             *)
C16_CreateKeepsGeneration ==
    [][/\ (op'.name \in {"newEntity", "newEntityWithArchetype"} /\ ~fatal')
            => LET i == entityIndex(ret'.e)
               IN  /\ entityGen(ret'.e) = generation(entities.data[i])
                   /\ generation(entities'.data[i]) = generation(entities.data[i])
                   /\ entities'.data[i].components
                          = (IF op'.name = "newEntity" THEN {} ELSE op'.mask)
                   /\ \A j \in Slots \ {i} : entities'.data[j] = entities.data[j]
       /\ ~fatal'
            => \A j \in Slots :
                   generation(entities'.data[j]) # generation(entities.data[j])
                   => destroys'[j] = destroys[j] + 1]_vars

(* newEntity handed out, with an empty mask, a slot that was recycled twice *)
(* while another live entity has components.                                 *)
C16_Witness ==
    /\ op.name = "newEntity" /\ ~fatal
    /\ entityGen(ret.e) = 2
    /\ MaskOf(ret.e) = {}
    /\ \E h \in LiveHandles : h # ret.e /\ MaskOf(h) # {}

(* C17: the stored generation is 8 bits wide and wraps: a destroyed handle  *)
(* is invalid while its slot has seen fewer than 256 successful destroys     *)
(* since the handle was issued, isEntityValid reports it valid again after   *)
(* exactly 256, and the entity then created on the slot gets that very       *)
(* handle (whose 16-bit generation field never holds more than 8 bits).      *)
C17_GenerationWraps ==
    [][/\ ~fatal'
            => \A h \in DOMAIN killedAt' :
                 /\ DestroysSince(h)' < U8 => ~isEntityValid(entities', h)
                 /\ DestroysSince(h)' = U8 => isEntityValid(entities', h)
                 /\ entityGen(h) < U8
       /\ (op'.name = "newEntity" /\ ~fatal')
            => \A h \in DOMAIN killedAt :
                 (entityIndex(h) = entityIndex(ret'.e) /\ DestroysSince(h) = U8)
                 => /\ ret'.e = h
                    /\ isEntityValid(entities', h)]_vars

(* Slot 0 was destroyed 256 times and the entity then created on it has the *)
(* handle of the slot's first entity.                                        *)
C17_Witness ==
    /\ op.name = "newEntity" /\ ~fatal
    /\ destroys[0] = U8
    /\ ret.e = createHandle(0, 0)
    /\ isEntityValid(entities, createHandle(0, 0))

(* C18: addComponentID, getComponentID and removeComponentID abort on an    *)
(* assertion, before they change a mask or read a component store, whenever  *)
(* the component ID is not that of a declared type (ECS_MAX_COMPS included)  *)
(* or the handle is not valid.                                               *)
C18_ComponentCallsChecked ==
    [][(/\ op'.name \in {"addComponentID", "getComponentID",
                         "removeComponentID"}
        /\ (~(op'.c < Len(compData)) \/ ~isEntityValid(entities, op'.e)))
        => /\ fatal'
           /\ ret' = NoRet
           /\ entities' = entities]_vars

(* C19: the first declaration of a name gets the next sequential ID, from 0 *)
(* on, and aborts exactly when ECS_MAX_COMPS types exist; distinct names     *)
(* have distinct IDs below ECS_MAX_COMPS; ecsComponentID returns the ID the  *)
(* name's declaration returned, or ECS_MAX_COMPS for a name never declared,  *)
(* and changes nothing.                                                      *)
C19_SequentialIDs ==
    [][/\ (op'.name = "ecsDeclareComponent" /\ op'.cname \notin DOMAIN firstID)
            => /\ fatal' <=> (Len(compData) = ECS_MAX_COMPS)
               /\ ~fatal' => /\ ret' = RetID(Cardinality(DOMAIN firstID))
                             /\ ret' = RetID(Len(compData))
                             /\ Len(compData') = Len(compData) + 1
                             /\ compData'[Len(compData')].id = op'.cname
       /\ (op'.name = "ecsComponentID")
            => /\ ret' = RetID(IF op'.cname \in DOMAIN firstID
                               THEN firstID[op'.cname] ELSE ECS_MAX_COMPS)
               /\ UNCHANGED <<entities, compData, store, systems, nextSystemID,
                              fatal>>
       /\ \A n1 \in DOMAIN firstID' :
            /\ firstID'[n1] \in 0 .. (ECS_MAX_COMPS - 1)
            /\ \A n2 \in DOMAIN firstID' :
                 n1 # n2 => firstID'[n1] # firstID'[n2]]_vars

(* With the registry full, the second registered type was looked up (ID 1)  *)
(* while another name is not registered.                                     *)
C19_Witness ==
    /\ op.name = "ecsComponentID" /\ ~fatal
    /\ Len(compData) = ECS_MAX_COMPS
    /\ op.cname = compData[2].id
    /\ ret = RetID(1)
    /\ \E n \in CompNames : ecsComponentID(compData, n) = ECS_MAX_COMPS

(* The slots of the live entities. *)
LiveSlots == {entityIndex(h) : h \in LiveHandles}

(* C20: in every reachable state, also after a pass whose callbacks call    *)
(* destroyEntity or newEntity on the handles they are given, the first       *)
(* freeCount entries of the free list are pairwise distinct, freeCount plus  *)
(* the number of live entities is ECS_MAX_ENTITIES, no slot is both free and *)
(* live, and newEntity does not return the handle of a live entity.          *)
C20_PoolInvariant ==
    [][/\ ~fatal'
            => /\ Cardinality(FreeSlots') = entities'.freeCount
               /\ entities'.freeCount + Cardinality(LiveHandles')
                      = ECS_MAX_ENTITIES
               /\ FreeSlots' \cap LiveSlots' = {}
       /\ (op'.name = "newEntity" /\ ~fatal') => ret'.e \notin LiveHandles]_vars

(* C21: a read of a component of a valid entity through getComponentID or   *)
(* through the getComponent macro leaves every membership mask and the rest  *)
(* of the registry as they were, and returns NULL when the entity does not   *)
(* have the component.                                                       *)
C21_ReadOnlyLookup ==
    [][(/\ op'.name \in {"getComponentID", "getComponent"}
        /\ op'.c < Len(compData)
        /\ isEntityValid(entities, op'.e))
        => /\ ~fatal'
           /\ UNCHANGED <<entities, compData, store, systems, nextSystemID>>
           /\ ~hasComponentBit(entities, op'.e, op'.c) => ret' = NULL]_vars

=============================================================================
